---- MODULE Spec2Model ----
(***************************************************************************)
(* UpNext: the external metadata service (app/services/external_api.py)    *)
(* and the HTTP handlers that drive it (app/routes/api.py).                *)
(*                                                                         *)
(* The specifications of the module share its variables:                  *)
(*   SpecRate       the AniList rate governor, statement by statement,     *)
(*                  under concurrent request threads and a global clock;   *)
(*   Spec           the request handlers external_search,                  *)
(*                  external_details, update_external_api_key and          *)
(*                  update_search_priority, each one atomic step over the  *)
(*                  configuration and the API keys;                        *)
(*   SpecPref       searches by stored preference;                         *)
(*   SpecCalls      the service and its clients called directly;           *)
(*   SpecNorm       what the clients make of one upstream item;            *)
(*   SpecStore      the keys in memory and in config.json, over restarts   *)
(*                  and failing writes;                                    *)
(*   SpecConfig     save_config, statement by statement, under concurrent  *)
(*                  callers;                                               *)
(*   SpecSingleton  _get_external_api_service under concurrent requests.   *)
(*                                                                         *)
(* Time is counted in tenths of a second.                                  *)
(***************************************************************************)
EXTENDS Integers, Sequences, FiniteSets, TLC

VARIABLES
    clock,                  \* time.time(), in tenths of a second
    last_anilist_request,   \* module global _last_anilist_request
    pc,                     \* per thread: position inside AniListClient._request
    now,                    \* per thread: local `now` of _rate_limit
    wake,                   \* per thread: instant at which time.sleep may return
    sent,                   \* history: instants at which requests.post was called
    results,                \* history: outcome of each finished AniList request
    overlapped,             \* history: two threads were inside _request at once
    api_key,                \* api_key of the TMDB, Google Books and Comic Vine clients
    searchPriorities,       \* config.json: searchPriorities, media type -> source
    resp,                   \* what the operation that ran last answered, until delivered
    reads,                  \* history: the last two preferences search read from config.json
    apiKeys,                \* config.json: apiKeys, client -> key ("None": no entry)
    disk,                   \* whether config.json can be written: "ok" or "failing"
    save_pc,                \* per thread: position inside save_config
    new_data,               \* per thread: the top-level key its save_config is given
    current_config,         \* per thread: local current_config of save_config
    inode,                  \* the files of the data directory, by inode
    config_file,            \* the inode named config.json
    tmp_file,               \* the inode named config.json.tmp, or "absent"
    handle,                 \* per thread: the inode its open file object writes to
    written_by,             \* per inode: the threads that wrote since it was truncated
    external_api_service,   \* module global _external_api_service: "None" or an instance
    get_pc,                 \* per thread: position inside a request that gets the service
    request,                \* per thread: what its request is for
    service,                \* per thread: local `service` of the handler
    instance_key            \* per instance: tmdb.api_key, "unbuilt" before __init__

rateVars == <<clock, last_anilist_request, pc, now, wake, sent, results, overlapped>>

storeVars == <<apiKeys, disk>>

fileVars == <<save_pc, new_data, current_config, inode, config_file, tmp_file, handle, written_by>>

singletonVars == <<external_api_service, get_pc, request, service, instance_key>>

procVars == <<fileVars, singletonVars>>

svcVars == <<api_key, searchPriorities, resp, reads, storeVars, procVars>>

vars == <<rateVars, svcVars>>

----------------------------------------------------------------------------
(* Bounds of the model *)

\* the request threads of the WSGI server
Threads == {"t1", "t2"}

\* AniList requests issued in one behaviour
MaxRequests == 3

\* the clock stops here
MaxTime == 18

----------------------------------------------------------------------------
(* AniList rate governor: external_api.py 23-24, 144-171 *)

\* ANILIST_MIN_INTERVAL = 0.7 s
ANILIST_MIN_INTERVAL == 7

\* outcomes of requests.post + raise_for_status + json: a data payload, a
\* payload carrying "errors", or a RequestException (unreachable, timeout,
\* non-2xx status)
AniListOutcomes == {"data", "errors", "exception"}

Inflight == {t \in Threads : pc[t] # "idle"}

\* a thread between two statements that do not block: no time passes there
Running(t) == pc[t] \in {"rl_now", "rl_elapsed", "rl_stamp", "post"}

SleepForDropped(elapsed) == 0

\* time.sleep(ANILIST_MIN_INTERVAL - elapsed) when elapsed < ANILIST_MIN_INTERVAL
SleepFor(elapsed) ==
    IF elapsed < ANILIST_MIN_INTERVAL THEN ANILIST_MIN_INTERVAL - elapsed ELSE 0

\* AniListClient.search / get_details enter _request, which calls _rate_limit
EnterRequest(t) ==
    /\ pc[t] = "idle"
    /\ Len(sent) + Cardinality(Inflight) < MaxRequests
    /\ pc' = [pc EXCEPT ![t] = "rl_now"]
    /\ overlapped' = (overlapped \/ Inflight # {})
    /\ UNCHANGED <<clock, last_anilist_request, now, wake, sent, results>>
    /\ UNCHANGED svcVars

\* now = time.time()
ReadNow(t) ==
    /\ pc[t] = "rl_now"
    /\ now' = [now EXCEPT ![t] = clock]
    /\ pc' = [pc EXCEPT ![t] = "rl_elapsed"]
    /\ UNCHANGED <<clock, last_anilist_request, wake, sent, results, overlapped>>
    /\ UNCHANGED svcVars

\* elapsed = now - _last_anilist_request; if elapsed < MIN: time.sleep(MIN - elapsed)
CheckElapsed(t) ==
    /\ pc[t] = "rl_elapsed"
    /\ LET d == SleepFor(now[t] - last_anilist_request)
       IN  IF d > 0
           THEN /\ wake' = [wake EXCEPT ![t] = clock + d]
                /\ pc' = [pc EXCEPT ![t] = "sleeping"]
           ELSE /\ pc' = [pc EXCEPT ![t] = "rl_stamp"]
                /\ UNCHANGED wake
    /\ UNCHANGED <<clock, last_anilist_request, now, sent, results, overlapped>>
    /\ UNCHANGED svcVars

\* time.sleep returns no earlier than asked
WakeUp(t) ==
    /\ pc[t] = "sleeping"
    /\ clock >= wake[t]
    /\ pc' = [pc EXCEPT ![t] = "rl_stamp"]
    /\ UNCHANGED <<clock, last_anilist_request, now, wake, sent, results, overlapped>>
    /\ UNCHANGED svcVars

\* _last_anilist_request = time.time()
Stamp(t) ==
    /\ pc[t] = "rl_stamp"
    /\ last_anilist_request' = clock
    /\ pc' = [pc EXCEPT ![t] = "post"]
    /\ UNCHANGED <<clock, now, wake, sent, results, overlapped>>
    /\ UNCHANGED svcVars

\* requests.post(API_URL, ...): the outbound request leaves
Post(t) ==
    /\ pc[t] = "post"
    /\ sent' = Append(sent, clock)
    /\ pc' = [pc EXCEPT ![t] = "await"]
    /\ UNCHANGED <<clock, last_anilist_request, now, wake, results, overlapped>>
    /\ UNCHANGED svcVars

\* the response, an error payload or a RequestException ends _request
Respond(t) ==
    /\ pc[t] = "await"
    /\ \E r \in AniListOutcomes : results' = Append(results, r)
    /\ pc' = [pc EXCEPT ![t] = "idle"]
    /\ UNCHANGED <<clock, last_anilist_request, now, wake, sent, overlapped>>
    /\ UNCHANGED svcVars

\* time passes while every thread is idle, asleep or waiting for the network
Tick ==
    /\ clock < MaxTime
    /\ \A t \in Threads : ~Running(t)
    /\ clock' = clock + 1
    /\ UNCHANGED <<last_anilist_request, pc, now, wake, sent, results, overlapped>>
    /\ UNCHANGED svcVars

----------------------------------------------------------------------------
(* Values shared by the adapters, the service and the handlers *)

\* utils/constants.py: MEDIA_TYPES
MEDIA_TYPES == {"Anime", "Manga", "Book", "Movie", "Series"}

\* the clients ExternalAPIService constructs
Sources == {"anilist", "tmdb", "tvmaze", "openlibrary", "mangadex", "googlebooks", "comicvine"}

\* the clients that hold an api_key
KeyedAdapters == {"tmdb", "googlebooks", "comicvine"}

\* Python None, the empty string, and one non-empty key
KeyStates == {"None", "", "k"}

\* Python truthiness of an optional string
Truthy(v) == v \notin {"None", ""}

\* str.strip() on the query and id strings the model submits
Strip(v) ==
    CASE v = " "    -> ""
      [] v = " q "  -> "q"
      [] v = " 42 " -> "42"
      [] OTHER      -> v

\* str.lower() on the source strings the model submits
Lower(v) == IF v = "TMDB" THEN "tmdb" ELSE v

\* whether int(external_id) succeeds
IsInt(v) == v = "42"

\* what one upstream answers to a search request:
\*   ok          a well-formed payload with at least one item
\*   empty       a well-formed payload with no item
\*   neterr      connection error, timeout or non-2xx status (RequestException)
\*   no_id       an item that lacks "id"
\*   null_image  an item whose image object is null
\*   null_title  an item whose title object is null
\*   bad_date    an item whose date string is not numeric
SearchKinds == {"ok", "empty", "neterr", "no_id", "null_image", "null_title", "bad_date"}

\* what one upstream answers to a details request:
\*   ok        a well-formed item
\*   notfound  the upstream reports that the item does not exist (404)
\*   neterr    the upstream is unreachable or times out
\*   no_id     malformed data: the item lacks "id"
DetailKinds == {"ok", "notfound", "neterr", "no_id"}

\* a client call that never reached the network
NoAnswer == "none"

----------------------------------------------------------------------------
(* The adapters' search: external_api.py 173-227, 329-371, 510-550,        *)
(* 633-663, 759-819, 911-940, 1003-1032                                    *)

\* the item shapes on which the adapter's result loop raises
\* (KeyError on item["id"], AttributeError on None.get, ValueError on int())
RaisesOnSearch(a) ==
    CASE a = "anilist"     -> {"no_id", "null_image", "null_title"}
      [] a = "tmdb"        -> {"no_id"}
      [] a = "openlibrary" -> {}
      [] a = "tvmaze"      -> {"null_image"}
      [] a = "mangadex"    -> {"no_id", "null_title"}
      [] a = "googlebooks" -> {"no_id", "null_image", "bad_date"}
      [] a = "comicvine"   -> {"no_id", "null_image"}

NeedsKeyNever(a) == FALSE

\* TMDBClient._request and ComicVineClient._request return None without a key;
\* GoogleBooksClient._request only adds the key when it has one
NeedsKey(a) == a \in {"tmdb", "comicvine"} /\ ~Truthy(api_key[a])

\* the key a request of the client carries: params["api_key"] = self.api_key
\* (lines 312, 984), params["key"] only when Google Books has one (893-894)
KeySent(a) ==
    IF a \in KeyedAdapters /\ Truthy(api_key[a]) THEN api_key[a] ELSE "None"

\* the adapter's search(query, media_type) on upstream answer up:
\* net = outbound requests, res = "empty" ([]), "list" or "raise",
\* key = the key the request carried
AdapterSearch(a, media_type, up) ==
    IF NeedsKey(a) \/ (a = "tvmaze" /\ media_type # "Series")
    THEN [net |-> 0, res |-> "empty", up |-> NoAnswer, key |-> "None"]
    ELSE [net |-> 1,
          res |-> IF up \in {"neterr", "empty"} THEN "empty"
                  ELSE IF up \in RaisesOnSearch(a) THEN "raise"
                  ELSE "list",
          up  |-> up,
          key |-> KeySent(a)]

----------------------------------------------------------------------------
(* ExternalAPIService.search: external_api.py 1096-1181 *)

\* the outcome of one service call: the adapters invoked in order, the
\* outbound requests, the upstream answer consumed, whether load_config ran
NoCall(res, cfg) ==
    [calls |-> <<>>, net |-> 0, up |-> NoAnswer, res |-> res, cfg |-> cfg,
     key |-> "None"]

Via(a, media_type, up, cfg) ==
    [calls |-> <<a>>, cfg |-> cfg] @@ AdapterSearch(a, media_type, up)

\* try: ... except Exception: return []
Swallow(r) == [r EXCEPT !.res = IF @ = "raise" THEN "empty" ELSE @]

\* lines 1115-1140: if source: ...
ExplicitRoute(media_type, source, up) ==
    CASE source = "tmdb" ->
            LET tmdb_type == IF media_type = "Anime" THEN "Series" ELSE media_type
            IN  IF tmdb_type \notin {"Movie", "Series"} THEN NoCall("empty", FALSE)
                ELSE Via("tmdb", tmdb_type, up, FALSE)
      [] source = "tvmaze" ->
            IF media_type \notin {"Series", "Anime"} THEN NoCall("empty", FALSE)
            ELSE Swallow(Via("tvmaze", "Series", up, FALSE))
      [] source = "anilist" ->
            IF media_type \notin {"Anime", "Manga", "Movie", "Series"}
            THEN NoCall("empty", FALSE)
            ELSE Via("anilist",
                     IF media_type \in {"Movie", "Series"} THEN "Anime" ELSE media_type,
                     up, FALSE)
      [] source = "openlibrary" -> Via("openlibrary", "None", up, FALSE)
      [] source = "mangadex"    -> Via("mangadex", media_type, up, FALSE)
      [] source = "googlebooks" -> Via("googlebooks", media_type, up, FALSE)
      [] source = "comicvine"   -> Via("comicvine", media_type, up, FALSE)
      [] OTHER -> NoCall("empty", FALSE)

\* lines 1151-1181: the chain per media type
DefaultChain(priority_source, media_type, up) ==
        CASE media_type = "Anime" ->
                IF priority_source = "tmdb" THEN Via("tmdb", "Series", up, TRUE)
                ELSE IF priority_source = "tvmaze" THEN Via("tvmaze", "Series", up, TRUE)
                ELSE Via("anilist", media_type, up, TRUE)
          [] media_type = "Manga" ->
                IF priority_source = "anilist" THEN Via("anilist", media_type, up, TRUE)
                ELSE Via("mangadex", media_type, up, TRUE)
          [] media_type = "Movie" ->
                IF priority_source = "anilist" THEN Via("anilist", "Anime", up, TRUE)
                ELSE Via("tmdb", media_type, up, TRUE)
          [] media_type = "Series" ->
                IF priority_source = "anilist" THEN Via("anilist", "Anime", up, TRUE)
                ELSE IF priority_source = "tvmaze" THEN Via("tvmaze", media_type, up, TRUE)
                ELSE IF priority_source = "tmdb" /\ Truthy(api_key["tmdb"])
                     THEN Via("tmdb", media_type, up, TRUE)
                ELSE IF Truthy(api_key["tmdb"]) THEN Via("tmdb", media_type, up, TRUE)
                ELSE Via("tvmaze", media_type, up, TRUE)
          [] media_type = "Book" ->
                IF priority_source = "googlebooks"
                THEN Via("googlebooks", media_type, up, TRUE)
                ELSE IF priority_source = "comicvine"
                THEN Via("comicvine", media_type, up, TRUE)
                ELSE Via("openlibrary", "None", up, TRUE)
          [] OTHER -> NoCall("empty", TRUE)

DefaultRouteUnread(media_type, up) == DefaultChain("None", media_type, up)

\* a search that asks TVMaze as well after TMDB for Series
DefaultRouteFanOut(media_type, up) ==
    IF media_type = "Series" /\ searchPriorities[media_type] = "None"
                             /\ Truthy(api_key["tmdb"])
    THEN [calls |-> <<"tmdb", "tvmaze">>, cfg |-> TRUE]
             @@ AdapterSearch("tvmaze", media_type, up)
    ELSE DefaultChain(IF media_type \in DOMAIN searchPriorities
                      THEN searchPriorities[media_type] ELSE "None",
                      media_type, up)

\* a search without the TVMaze fallback of Series
DefaultRouteNoFallback(media_type, up) ==
    IF media_type = "Series" /\ searchPriorities[media_type] = "None"
    THEN Via("tmdb", media_type, up, TRUE)
    ELSE DefaultChain(IF media_type \in DOMAIN searchPriorities
                      THEN searchPriorities[media_type] ELSE "None",
                      media_type, up)

\* a search that prefers Google Books for Book once its key is set
DefaultRouteBookByKey(media_type, up) ==
    IF media_type = "Book" /\ searchPriorities[media_type] = "None"
                           /\ Truthy(api_key["googlebooks"])
    THEN Via("googlebooks", media_type, up, TRUE)
    ELSE DefaultChain(IF media_type \in DOMAIN searchPriorities
                      THEN searchPriorities[media_type] ELSE "None",
                      media_type, up)

\* a search that keeps the preference it read first for a media type
DefaultRouteCached(media_type, up) ==
    DefaultChain(IF reads # <<>> /\ reads[Len(reads)][1] = media_type
                 THEN reads[Len(reads)][2]
                 ELSE searchPriorities[media_type],
                 media_type, up)

\* a search that follows every preference naming one of its clients
DefaultRouteAnyPreference(media_type, up) ==
    IF media_type \in DOMAIN searchPriorities /\ searchPriorities[media_type] \in Sources
    THEN Via(searchPriorities[media_type], media_type, up, TRUE)
    ELSE DefaultChain("None", media_type, up)

\* lines 1142-1149: priority_source = load_config()["searchPriorities"].get(media_type)
DefaultRoute(media_type, up) ==
    DefaultChain(IF media_type \in DOMAIN searchPriorities
                 THEN searchPriorities[media_type] ELSE "None",
                 media_type, up)

\* the media types a source is routed for: the guards of the explicit branch
\* (lines 1119, 1122, 1128) and, for a source that has no guard, the media
\* types whose chain names it (lines 1151-1177)
Compatible(source, media_type) ==
    CASE source = "tmdb"        -> media_type \in {"Movie", "Series", "Anime"}
      [] source = "tvmaze"      -> media_type \in {"Series", "Anime"}
      [] source = "anilist"     -> media_type \in {"Anime", "Manga", "Movie", "Series"}
      [] source = "openlibrary" -> media_type = "Book"
      [] source = "mangadex"    -> media_type = "Manga"
      [] source = "googlebooks" -> media_type = "Book"
      [] source = "comicvine"   -> media_type = "Book"
      [] OTHER                  -> FALSE

\* a search that consults the preference before the explicit source
ServiceSearchPrefFirst(query, media_type, source, up) ==
    IF ~Truthy(query) \/ Strip(query) = ""
    THEN [query |-> NoAnswer] @@ NoCall("empty", FALSE)
    ELSE [query |-> Strip(query)] @@
         (IF Truthy(source) /\ searchPriorities[media_type] = "None"
          THEN ExplicitRoute(media_type, source, up)
          ELSE DefaultRoute(media_type, up))

\* a search that neither tests for whitespace nor trims
ServiceSearchUntrimmed(query, media_type, source, up) ==
    IF ~Truthy(query)
    THEN [query |-> NoAnswer] @@ NoCall("empty", FALSE)
    ELSE [query |-> query] @@
         (IF Truthy(source) THEN ExplicitRoute(media_type, source, up)
          ELSE DefaultRoute(media_type, up))

\* search(query, media_type, source): lines 1108-1111 return [] for a query
\* that is None, empty or blank and trim the others; field query is the
\* local `query` the clients are called with
ServiceSearch(query, media_type, source, up) ==
    IF ~Truthy(query) \/ Strip(query) = ""
    THEN [query |-> NoAnswer] @@ NoCall("empty", FALSE)
    ELSE [query |-> Strip(query)] @@
         (IF Truthy(source) THEN ExplicitRoute(media_type, source, up)
          ELSE DefaultRoute(media_type, up))

----------------------------------------------------------------------------
(* The adapters' get_details: external_api.py 229-288, 373-480, 552-626,   *)
(* 665-735, 821-881, 942-966, 1034-1071                                    *)

\* OpenLibraryClient.get_details resolves data["authors"][:5]
AuthorLookups == 5

\* author references in one OpenLibrary work
MaxExtra == 6

Min(a, b) == IF a < b THEN a ELSE b

\* the adapters whose returned dict reads the id from the payload
\* (item["id"], data["id"], show["id"]); the others echo external_id
ReadsPayloadId == {"anilist", "tmdb", "tvmaze", "mangadex", "googlebooks"}

\* a client that looks up every author reference
FollowUpsUncapped(a, extra) == extra

\* requests after the first one: one per author reference with a key, capped;
\* one episode listing when a season lacks episodeOrder
FollowUps(a, extra) ==
    CASE a = "openlibrary" -> Min(extra, AuthorLookups)
      [] a = "tvmaze"      -> IF extra > 0 THEN 1 ELSE 0
      [] OTHER             -> 0

\* the adapter's get_details(external_id) on upstream answer up:
\* res = "null" (None), "item" (the normalized dict) or "raise"
AdapterDetails(a, external_id, up, extra) ==
    IF NeedsKey(a) \/ (a = "anilist" /\ ~IsInt(external_id))
    THEN [net |-> 0, res |-> "null", up |-> NoAnswer, key |-> "None"]
    ELSE IF up \in {"notfound", "neterr"}
    THEN [net |-> 1, res |-> "null", up |-> up, key |-> KeySent(a)]
    ELSE [net |-> 1 + FollowUps(a, extra),
          res |-> IF up = "no_id" /\ a \in ReadsPayloadId THEN "raise" ELSE "item",
          up  |-> up,
          key |-> KeySent(a)]

\* ExternalAPIService.get_details: external_api.py 1183-1211
ServiceDetails(external_id, media_type, source, up, extra) ==
    IF source \in Sources
    THEN [calls |-> <<source>>, cfg |-> FALSE]
             @@ AdapterDetails(source, external_id, up, extra)
    ELSE NoCall("null", FALSE)

----------------------------------------------------------------------------
(* The HTTP handlers: routes/api.py 513-674 *)

NoResp == [op |-> "none"]

\* the response of a handler together with what the service did for it:
\* svc = FALSE when the handler answered without calling the service
Answer(op, media_type, source, arg, status, error, svc, r) ==
    [op |-> op, media_type |-> media_type, source |-> source, arg |-> arg,
     status |-> status, error |-> error, svc |-> svc] @@ r

Refuse(op, media_type, source, arg, status, error) ==
    Answer(op, media_type, source, arg, status, error, FALSE, NoCall("none", FALSE))

\* lines 550-555: jsonify the results; except Exception: 500
SearchOutcome(media_type, source, query, r) ==
    [op |-> "search", media_type |-> media_type, source |-> source, arg |-> query,
     status |-> IF r.res = "raise" THEN 500 ELSE 200,
     error |-> IF r.res = "raise" THEN "search_failed" ELSE "",
     svc |-> TRUE] @@ r

\* a handler that hands every media type to the service
SearchResponseAnyType(q, media_type, source, up) ==
    LET query == Strip(q)
    IN  IF query = ""
        THEN Refuse("search", media_type, source, query, 400, "query_required")
        ELSE SearchOutcome(media_type, source, query,
                           ServiceSearch(query, media_type, source, up))

\* external_search: lines 525-555
SearchResponse(q, media_type, source, up) ==
    LET query == Strip(q)
    IN  IF query = ""
        THEN Refuse("search", media_type, source, query, 400, "query_required")
        ELSE IF media_type \notin MEDIA_TYPES
        THEN Refuse("search", media_type, source, query, 400, "invalid_type")
        ELSE IF media_type = "Movie" /\ ~Truthy(source) /\ ~Truthy(api_key["tmdb"])
        THEN Refuse("search", media_type, source, query, 400, "tmdb_key_missing")
        ELSE IF source = "tmdb" /\ ~Truthy(api_key["tmdb"])
        THEN Refuse("search", media_type, source, query, 400, "tmdb_key_missing")
        ELSE SearchOutcome(media_type, source, query,
                           ServiceSearch(query, media_type, source, up))

\* lines 594-603: 404 when the service returns None; except Exception: 500
DetailsOutcome(media_type, source, external_id, r) ==
    [op |-> "details", media_type |-> media_type, source |-> source,
     arg |-> external_id,
     status |-> CASE r.res = "raise" -> 500 [] r.res = "null" -> 404 [] OTHER -> 200,
     error |-> CASE r.res = "raise" -> "details_failed"
                 [] r.res = "null" -> "not_found" [] OTHER -> "",
     svc |-> TRUE] @@ r

AllowedSourceAny(source) == TRUE

\* line 581: the sources external_details accepts
AllowedSource(source) ==
    source \in {"anilist", "tmdb", "openlibrary", "tvmaze", "mangadex",
                "googlebooks", "comicvine"}

\* external_details: lines 571-603
DetailsResponse(id, media_type, src, up, extra) ==
    LET external_id == Strip(id)
        source == Lower(src)
    IN  IF external_id = ""
        THEN Refuse("details", media_type, source, external_id, 400, "id_required")
        ELSE IF media_type \notin MEDIA_TYPES
        THEN Refuse("details", media_type, source, external_id, 400, "invalid_type")
        ELSE IF ~AllowedSource(source)
        THEN Refuse("details", media_type, source, external_id, 400, "invalid_source")
        ELSE IF source = "tmdb" /\ ~Truthy(api_key["tmdb"])
        THEN Refuse("details", media_type, source, external_id, 400, "tmdb_key_missing")
        ELSE DetailsOutcome(media_type, source, external_id,
                            ServiceDetails(external_id, media_type, source, up, extra))

\* what the model submits to the handlers
QueryInputs == {"", " ", " q "}

IdInputs == {"", " 42 ", "abc"}

TypeInputs == MEDIA_TYPES \cup {"Game"}

\* get_details reads media_type only to pick the TMDB endpoint, which answers
\* alike for every valid type: one valid type and one invalid
DetailTypeInputs == {"Movie", "Game"}

\* author references in an OpenLibrary work; whether a season of a TVMaze
\* show lacks episodeOrder; nothing of the kind elsewhere
ExtraInputs(source) ==
    CASE source = "openlibrary" -> 0..MaxExtra
      [] source = "tvmaze"      -> 0..1
      [] OTHER                  -> {0}

SearchSourceInputs == Sources \cup {"None", "bogus"}

DetailSourceInputs == Sources \cup {"", "bogus", "TMDB"}

\* the sources update_search_priority is asked to store: those the chains of
\* search test for, and one they do not
PrefValues == {"anilist", "tmdb", "tvmaze", "googlebooks", "comicvine", "bogus"}

\* media types that hold a stored preference at once
MaxPrefs == 1

\* a handler whose service call went out through AniListClient._request ran
\* _rate_limit first: it slept for the remainder and stamped the global
Governed(r) == r.svc /\ r.calls = <<"anilist">> /\ r.net > 0

AfterRateLimit == clock + SleepFor(clock - last_anilist_request)

\* ComicVineClient._request: time.sleep(1.0) before every request, in tenths
COMICVINE_SLEEP == 10

\* a handler whose service call went out through ComicVineClient._request
SleptForComicVine(r) == r.svc /\ r.calls = <<"comicvine">> /\ r.net > 0

\* one request is handled at a time: the handlers run to completion
Idle == resp = NoResp

Serve(answer) ==
    /\ \E r \in {answer} :
        /\ resp' = r
        /\ IF Governed(r)
           THEN /\ AfterRateLimit <= MaxTime
                /\ clock' = AfterRateLimit
                /\ last_anilist_request' = AfterRateLimit
           ELSE IF SleptForComicVine(r)
           THEN /\ clock + COMICVINE_SLEEP <= MaxTime
                /\ clock' = clock + COMICVINE_SLEEP
                /\ UNCHANGED last_anilist_request
           ELSE UNCHANGED <<clock, last_anilist_request>>
    /\ UNCHANGED <<pc, now, wake, sent, results, overlapped>>

\* the upstream answers a request can meet: one of `kinds` when the handler
\* reaches the network, none when it answers without an outbound request
Answers(probe, kinds) == IF probe.net > 0 THEN kinds ELSE {"ok"}

\* GET /external/search
external_search ==
    /\ Idle
    /\ \E q \in QueryInputs, media_type \in TypeInputs, source \in SearchSourceInputs :
         \E up \in Answers(SearchResponse(q, media_type, source, "ok"), SearchKinds) :
            Serve(SearchResponse(q, media_type, source, up))
    /\ UNCHANGED <<api_key, searchPriorities, reads, storeVars, procVars>>

\* GET /external/details
external_details ==
    /\ Idle
    /\ \E id \in IdInputs, media_type \in DetailTypeInputs,
          source \in DetailSourceInputs :
         \E up \in Answers(DetailsResponse(id, media_type, source, "ok", 0), DetailKinds) :
            \E extra \in IF up \in {"ok", "no_id"} THEN ExtraInputs(source) ELSE {0} :
                Serve(DetailsResponse(id, media_type, source, up, extra))
    /\ UNCHANGED <<api_key, searchPriorities, reads, storeVars, procVars>>

\* save_config, utils/config_manager.py 28-56: the new value is in the file
\* afterwards, unless writing it raised, which save_config logs and swallows
SaveConfig(old, new) == IF disk = "ok" THEN new ELSE old

\* a handler that stores the keys in config.json only
ApplyKeysToConfigOnly(keys, body) == keys

\* lines 626-639: each key of the body that is truthy is set on its client
\* (set_tmdb_api_key, update_keys); the others are left as they are
ApplyKeys(keys, body) ==
    [a \in KeyedAdapters |-> IF Truthy(body[a]) THEN body[a] ELSE keys[a]]

\* POST /external/update-key: routes/api.py 606-646 with
\* set_tmdb_api_key / update_keys, external_api.py 1213-1221
update_external_api_key ==
    /\ Idle
    /\ \E body \in [KeyedAdapters -> KeyStates] :
        /\ api_key' = ApplyKeys(api_key, body)
        /\ apiKeys' = SaveConfig(apiKeys, ApplyKeys(apiKeys, body))
        /\ Serve([body |-> body, before |-> api_key]
                     @@ Refuse("update_key", "", "", "", 200, ""))
    /\ UNCHANGED <<searchPriorities, reads, disk, procVars>>

\* POST /external/priority: routes/api.py 649-674
update_search_priority ==
    /\ Idle
    /\ \E media_type \in MEDIA_TYPES \cup {""}, source \in PrefValues \cup {""} :
        IF media_type = "" \/ source = ""
        THEN /\ Serve(Refuse("priority", media_type, source, "", 400, "missing"))
             /\ UNCHANGED searchPriorities
        ELSE /\ searchPriorities' = SaveConfig(searchPriorities,
                                           [searchPriorities EXCEPT ![media_type] = source])
             /\ Cardinality({t \in MEDIA_TYPES : searchPriorities'[t] # "None"}) <= MaxPrefs
             /\ Serve(Refuse("priority", media_type, source, "", 200, ""))
    /\ UNCHANGED <<api_key, reads, storeVars, procVars>>

\* GET /external/search without a source, the preference it reads recorded:
\* priorities.get(media_type), external_api.py 1144-1149
external_search_by_preference ==
    /\ Idle
    /\ \E media_type \in MEDIA_TYPES :
         \E r \in {SearchResponse(" q ", media_type, "None", "ok")} :
            /\ Serve(r)
            /\ reads' = IF r.svc /\ r.cfg
                        THEN Append(IF reads = <<>> THEN <<>>
                                    ELSE <<reads[Len(reads)]>>,
                                    <<media_type, searchPriorities[media_type]>>)
                        ELSE reads
    /\ UNCHANGED <<api_key, searchPriorities, storeVars, procVars>>

\* what a direct call of the service or of one client returned
Returned(op, media_type, source, arg, r) ==
    [op |-> op, media_type |-> media_type, source |-> source, arg |-> arg,
     status |-> 0, error |-> "", svc |-> TRUE] @@ r

\* the queries the service and the clients are called with
ServiceQueryInputs == QueryInputs \cup {"None"}

\* the upstream answers met by the direct calls
CallKinds == {"ok", "empty", "neterr"}

\* ExternalAPIService.search(query, media_type, source), called directly
ExternalAPIService_search ==
    /\ Idle
    /\ \E query \in ServiceQueryInputs, media_type \in TypeInputs,
          source \in SearchSourceInputs :
         \E up \in Answers(ServiceSearch(query, media_type, source, "ok"), CallKinds) :
            Serve(Returned("service.search", media_type, source, query,
                           ServiceSearch(query, media_type, source, up)))
    /\ UNCHANGED <<api_key, searchPriorities, reads, storeVars, procVars>>

\* <client>.search(query, media_type), called directly: no client looks at
\* the query before it builds its request
client_search ==
    /\ Idle
    /\ \E a \in Sources, query \in {"", "q"}, media_type \in MEDIA_TYPES :
         \E up \in Answers(AdapterSearch(a, media_type, "ok"), CallKinds) :
            Serve(Returned("client.search", media_type, a, query,
                           [calls |-> <<a>>, cfg |-> FALSE]
                               @@ AdapterSearch(a, media_type, up)))
    /\ UNCHANGED <<api_key, searchPriorities, reads, storeVars, procVars>>

----------------------------------------------------------------------------
(* What the clients make of one upstream item: titles and previews *)

\* a field of an upstream item: absent, null, empty, or one of two strings
TitleValues == {"missing", "None", "", "A", "B"}

\* dict.get(key, default) on a field
PyGet(v, default) == IF v = "missing" THEN default ELSE v

\* Python's `a or b`
PyOr(a, b) == IF Truthy(a) THEN a ELSE b

\* the fields a client reads the title from
TitleFields(a) ==
    CASE a = "anilist"                      -> {"english", "romaji", "native"}
      [] a = "tmdb"                         -> {"title", "name"}
      [] a \in {"openlibrary", "googlebooks"} -> {"title"}
      [] a \in {"tvmaze", "comicvine"}       -> {"name"}

\* languages of a MangaDex title map, and how many one map holds
Langs == {"en", "ja-ro", "ko"}

MaxTitleLangs == 2

\* attributes.title of MangaDex: a dict in insertion order, language -> title
MangaDexTitles ==
    {d \in UNION {[1..n -> Langs \X {"", "A"}] : n \in 0..MaxTitleLangs} :
        \A i, j \in DOMAIN d : i # j => d[i][1] # d[j][1]}

\* titles.get(lang) on such a dict
DictGet(d, lang) ==
    IF \E i \in DOMAIN d : d[i][1] = lang
    THEN d[CHOOSE i \in DOMAIN d : d[i][1] = lang][2]
    ELSE "None"

\* next(iter(titles.values()), default)
FirstValue(d, default) == IF d = <<>> THEN default ELSE d[1][2]

TitlePayloads(a) ==
    IF a = "mangadex" THEN MangaDexTitles ELSE [TitleFields(a) -> TitleValues]

\* "title" of a search result and of a details record: lines 197/242, 346/382,
\* 538/560, 657/724, 782/831, 933/956, 1024/1062
TitleOf(a, p) ==
    CASE a = "anilist" ->
            PyOr(PyGet(p["english"], "None"),
                 PyOr(PyGet(p["romaji"], "None"),
                      PyOr(PyGet(p["native"], "None"), "Unknown")))
      [] a = "tmdb" ->
            PyOr(PyGet(p["title"], "None"), PyOr(PyGet(p["name"], "None"), "Unknown"))
      [] a \in {"openlibrary", "googlebooks"} -> PyGet(p["title"], "Unknown")
      [] a = "comicvine" -> PyGet(p["name"], "Unknown")
      [] a = "tvmaze"    -> PyGet(p["name"], "None")
      [] a = "mangadex"  ->
            PyOr(DictGet(p, "en"), PyOr(DictGet(p, "ja-ro"), FirstValue(p, "Unknown")))

\* item.get("synonyms", [])[:5]
SynonymsKept == 5

\* synonyms in one AniList item
MaxSynonyms == 6

\* "alternate_titles" of AniListClient.get_details: lines 244-250
AltTitles(p, synonyms) ==
    LET title  == TitleOf("anilist", p)
        romaji == PyGet(p["romaji"], "None")
        native == PyGet(p["native"], "None")
    IN  (IF Truthy(romaji) /\ romaji # title THEN <<romaji>> ELSE <<>>)
        \o (IF Truthy(native) THEN <<native>> ELSE <<>>)
        \o SubSeq(synonyms, 1, Min(Len(synonyms), SynonymsKept))

\* original_title / original_name next to title / name in a TMDB item
TMDBTitlePayloads == [{"title", "name", "original_title", "original_name"} -> TitleValues]

\* "alternate_titles" of TMDBClient.get_details: lines 383-388
TMDBAltTitles(p) ==
    LET title          == TitleOf("tmdb", p)
        original_title == PyOr(PyGet(p["original_title"], "None"),
                               PyGet(p["original_name"], "None"))
    IN  IF Truthy(original_title) /\ original_title # title
        THEN <<original_title>> ELSE <<>>

\* alt_titles[:5]
AltTitlesKept == 5

\* altTitles entries in one MangaDex item
MaxAltTitles == 6

\* attributes.altTitles of MangaDex, each one-language map given by its first value
MangaDexAltTitleInputs == UNION {[1..n -> {"", "A"}] : n \in 0..MaxAltTitles}

\* the elements of a sequence that pass a test, in order
RECURSIVE Truthies(_)
Truthies(q) ==
    IF q = <<>> THEN <<>>
    ELSE (IF Truthy(Head(q)) THEN <<Head(q)>> ELSE <<>>) \o Truthies(Tail(q))

\* "alternate_titles" of MangaDexClient.get_details: lines 834-837 and 873
MangaDexAltTitles(alts) ==
    LET alt_titles == Truthies(alts)
    IN  SubSeq(alt_titles, 1, Min(Len(alt_titles), AltTitlesKept))

\* desc[:200]
PreviewLength == 200

\* the marker appended to a cut description
Ellipsis == <<".", ".", ".">>

\* the longest description submitted
MaxDescLen == 202

\* a description of n characters without markup
Chars(n) == [i \in 1..n |-> "a"]

\* the description field of an item: null (or absent), or a text.  The
\* OpenLibrary search request asks for no description field (line 515)
DescInputs(a) ==
    {[null |-> TRUE, text |-> <<>>]}
        \cup (IF a = "openlibrary" THEN {}
              ELSE {[null |-> FALSE, text |-> Chars(n)] : n \in 0..MaxDescLen})

\* (item.get("description") or "")
DescText(d) == IF d.null THEN <<>> ELSE d.text

\* s[:n]
Take(s, n) == SubSeq(s, 1, Min(Len(s), n))

\* "description_preview" of a search result: lines 208-209, 358-359, 541, 660,
\* 786-787, 936, 1018-1027
PreviewOf(a, d) ==
    LET desc == DescText(d)
    IN  CASE a \in {"anilist", "tmdb", "mangadex", "comicvine"} ->
                IF Len(desc) > PreviewLength
                THEN Take(desc, PreviewLength) \o Ellipsis
                ELSE desc
          [] a \in {"tvmaze", "googlebooks"} -> Take(desc, PreviewLength)
          [] a = "openlibrary" -> <<>>

\* one item of a search response passes the result loop of a client: its title
search_result_title ==
    /\ Idle
    /\ \E a \in Sources : \E p \in TitlePayloads(a) :
         resp' = [op |-> "title", source |-> a, payload |-> p, title |-> TitleOf(a, p)]
    /\ UNCHANGED <<rateVars, api_key, searchPriorities, reads, storeVars, procVars>>

\* one item of a search response passes the result loop of a client: its preview
search_result_preview ==
    /\ Idle
    /\ \E a \in Sources : \E d \in DescInputs(a) :
         resp' = [op |-> "preview", source |-> a, desc |-> d,
                  description_preview |-> PreviewOf(a, d)]
    /\ UNCHANGED <<rateVars, api_key, searchPriorities, reads, storeVars, procVars>>

\* AniListClient.get_details builds title and alternate_titles: lines 240-250
anilist_details_titles ==
    /\ Idle
    /\ \E p \in TitlePayloads("anilist"), n \in 0..MaxSynonyms :
         resp' = [op |-> "anilist.titles", payload |-> p, synonyms |-> n,
                  title |-> TitleOf("anilist", p),
                  alternate_titles |-> AltTitles(p, [i \in 1..n |-> "S"])]
    /\ UNCHANGED <<rateVars, api_key, searchPriorities, reads, storeVars, procVars>>

----------------------------------------------------------------------------
(* TVMazeAPI.get_details reconciles episode counts: lines 679-735 *)

\* Python's None where a number is expected
Null == 0 - 1

\* `if x:` on a number or None
TruthyNum(x) == x # Null /\ x # 0

\* the highest season number of a show, and the most episodes in a listing
MaxSeason == 2

MaxEpisodes == 3

\* _embedded.seasons: number and episodeOrder (null, 0 or a count) of each
\* season, season numbers distinct
SeasonInputs ==
    {q \in UNION {[1..n -> [number : 0..MaxSeason, episodeOrder : {Null, 0, 2}]] :
                      n \in 0..MaxSeason} :
        \A i, j \in DOMAIN q : i # j => q[i].number # q[j].number}

\* /shows/{id}/episodes: the season number of each episode, among them
\* numbers the season list does not have
ListingInputs == UNION {[1..n -> 0..(MaxSeason + 1)] : n \in 0..MaxEpisodes}

\* needs_manual_count: lines 684-688
NeedsManualCount(seasons) == \E i \in DOMAIN seasons : seasons[i].episodeOrder = Null

\* the variant that credits every season with the whole listing instead of
\* counting by season number
EpisodeCountsShared(listing, s_num) == Len(listing)

\* episode_counts[s_num] after the loop of lines 696-699; 0 stands for "no entry"
EpisodeCounts(listing, s_num) ==
    IF TruthyNum(s_num)
    THEN Cardinality({i \in DOMAIN listing : listing[i] = s_num})
    ELSE 0

\* ep_count of one season: lines 704-709
EpCount(s, listing, counted) ==
    IF s.episodeOrder = Null /\ counted /\ EpisodeCounts(listing, s.number) > 0
    THEN EpisodeCounts(listing, s.number)
    ELSE s.episodeOrder

\* the sum of the counts that pass `if ep_count:` (lines 711-712)
RECURSIVE SumCounts(_)
SumCounts(q) ==
    IF q = <<>> THEN 0
    ELSE (IF TruthyNum(Head(q).episodes) THEN Head(q).episodes ELSE 0) + SumCounts(Tail(q))

\* the seasons / episodes part of the returned dict, and the requests made
TVMazeDetails(seasons, listing, listing_ok) ==
    LET counted     == NeedsManualCount(seasons) /\ listing_ok
        seasons_data == [i \in DOMAIN seasons |->
                            [number   |-> seasons[i].number,
                             episodes |-> EpCount(seasons[i], listing, counted)]]
        total_episodes == SumCounts(seasons_data)
    IN  [net      |-> IF NeedsManualCount(seasons) THEN 2 ELSE 1,
         seasons  |-> seasons_data,
         episodes |-> IF total_episodes > 0 THEN total_episodes ELSE Null,
         volumes  |-> IF seasons_data # <<>> THEN Len(seasons_data) ELSE Null]

\* TVMazeAPI.get_details on a show that was fetched
tvmaze_details_seasons ==
    /\ Idle
    /\ \E seasons \in SeasonInputs, listing \in ListingInputs, listing_ok \in BOOLEAN :
         resp' = [op |-> "tvmaze.details", embedded |-> seasons,
                  listing |-> listing, listing_ok |-> listing_ok]
                     @@ TVMazeDetails(seasons, listing, listing_ok)
    /\ UNCHANGED <<rateVars, api_key, searchPriorities, reads, storeVars, procVars>>

----------------------------------------------------------------------------
(* TMDBClient.get_details: runtime, episode and season counts, lines 413-463 *)

\* entries of "seasons" and of "episode_run_time" in one TMDB item
MaxTMDBSeasons == 2

MaxRunTimes == 2

\* data["seasons"]: absent or empty (<<>>), or season_number / episode_count pairs
TMDBSeasonInputs ==
    UNION {[1..n -> [season_number : 0..1, episode_count : {Null, 0, 2}]] :
              n \in 0..MaxTMDBSeasons}

\* data["episode_run_time"]
RunTimeInputs == UNION {[1..n -> {0, 45}] : n \in 0..MaxRunTimes}

\* the items TMDB answers with
TMDBItems ==
    [runtime : {Null, 0, 45}, episode_run_time : RunTimeInputs,
     last_episode_runtime : {Null, 45}, next_episode_runtime : {Null, 45},
     number_of_episodes : {Null, 2}, number_of_seasons : {Null, 0, 2},
     seasons : TMDBSeasonInputs]

RECURSIVE Sum(_)
Sum(q) == IF q = <<>> THEN 0 ELSE Head(q) + Sum(Tail(q))

\* Python's `x or 0` on a number or None
OrZero(x) == IF TruthyNum(x) THEN x ELSE 0

\* lines 413-431: runtime, else the mean of episode_run_time, else the last
\* episode's, else the next episode's
Runtime(data) ==
    LET r0 == data.runtime
        r1 == IF ~TruthyNum(r0) /\ data.episode_run_time # <<>>
              THEN Sum(data.episode_run_time) \div Len(data.episode_run_time)
              ELSE r0
        r2 == IF ~TruthyNum(r1) /\ TruthyNum(data.last_episode_runtime)
              THEN data.last_episode_runtime ELSE r1
    IN  IF ~TruthyNum(r2) /\ TruthyNum(data.next_episode_runtime)
        THEN data.next_episode_runtime ELSE r2

\* one entry of seasons_list: lines 447-452
SeasonEntry(number, episode_count, runtime) ==
    [number |-> number, episodes |-> OrZero(episode_count), duration |-> OrZero(runtime)]

\* lines 444-452: the seasons of the item, season 0 left out
RECURSIVE SeasonsFromData(_, _)
SeasonsFromData(q, runtime) ==
    IF q = <<>> THEN <<>>
    ELSE (IF Head(q).season_number = 0 THEN <<>>
          ELSE <<SeasonEntry(Head(q).season_number, Head(q).episode_count, runtime)>>)
         \o SeasonsFromData(Tail(q), runtime)

\* lines 440-463
SeasonsList(media_type, data) ==
    IF media_type # "Series" THEN <<>>
    ELSE IF data.seasons # <<>> THEN SeasonsFromData(data.seasons, Runtime(data))
    ELSE IF TruthyNum(data.number_of_seasons) /\ data.number_of_seasons > 0
    THEN [i \in 1..data.number_of_seasons |-> SeasonEntry(i, 0, Runtime(data))]
    ELSE <<>>

\* the numeric part of the dict TMDBClient.get_details returns: lines 465-480
TMDBDetails(media_type, data) ==
    [avg_duration_minutes |-> Runtime(data),
     episodes |-> data.number_of_episodes,
     volumes  |-> data.number_of_seasons,
     seasons  |-> SeasonsList(media_type, data)]

\* TMDBClient.get_details on an item that was fetched
tmdb_details_counts ==
    /\ Idle
    /\ \E media_type \in {"Movie", "Series"}, data \in TMDBItems :
         resp' = [op |-> "tmdb.details", media_type |-> media_type, payload |-> data]
                     @@ TMDBDetails(media_type, data)
    /\ UNCHANGED <<rateVars, api_key, searchPriorities, reads, storeVars, procVars>>

\* TMDBClient.get_details builds title and alternate_titles: lines 382-388
tmdb_details_titles ==
    /\ Idle
    /\ \E p \in TMDBTitlePayloads :
         resp' = [op |-> "tmdb.titles", payload |-> p,
                  title |-> TitleOf("tmdb", p),
                  alternate_titles |-> TMDBAltTitles(p)]
    /\ UNCHANGED <<rateVars, api_key, searchPriorities, reads, storeVars, procVars>>

\* MangaDexClient.get_details builds title and alternate_titles: lines 830-837
mangadex_details_titles ==
    /\ Idle
    /\ \E p \in MangaDexTitles, alts \in MangaDexAltTitleInputs :
         resp' = [op |-> "mangadex.titles", payload |-> p, altTitles |-> alts,
                  title |-> TitleOf("mangadex", p),
                  alternate_titles |-> MangaDexAltTitles(alts)]
    /\ UNCHANGED <<rateVars, api_key, searchPriorities, reads, storeVars, procVars>>

----------------------------------------------------------------------------
(* save_config under concurrent callers: utils/config_manager.py 28-56 *)

\* the file config.json names at the start, and the one each thread creates
\* when it opens config.json.tmp while no file has that name
Inodes == {"i0"} \cup Threads

\* the top-level keys the handlers save: update_external_api_key saves apiKeys
\* (api.py 641), update_search_priority saves searchPriorities (api.py 669)
TopLevelKeys == {"apiKeys", "searchPriorities"}

\* load_config, lines 12-26: the content of config.json, {} when json.load raises
LoadConfig == IF inode[config_file].state = "whole" THEN inode[config_file].data ELSE {}

\* lines 38-39: current_config = load_config(); current_config.update(new_data)
save_load(t) ==
    /\ Idle
    /\ save_pc[t] = "idle"
    /\ \E k \in TopLevelKeys :
        /\ new_data' = [new_data EXCEPT ![t] = k]
        /\ current_config' = [current_config EXCEPT ![t] = LoadConfig \cup {k}]
    /\ save_pc' = [save_pc EXCEPT ![t] = "loaded"]
    /\ UNCHANGED <<inode, config_file, tmp_file, handle, written_by>>
    /\ UNCHANGED <<rateVars, api_key, searchPriorities, resp, reads, storeVars, singletonVars>>

\* line 43: open(tmp_file, 'w') creates the file or truncates the one there is
save_open(t) ==
    /\ save_pc[t] = "loaded"
    /\ \E i \in {IF tmp_file = "absent" THEN t ELSE tmp_file} :
        /\ tmp_file' = i
        /\ inode' = [inode EXCEPT ![i] = [data |-> {}, state |-> "empty"]]
        /\ written_by' = [written_by EXCEPT ![i] = {}]
        /\ handle' = [handle EXCEPT ![t] = i]
    /\ save_pc' = [save_pc EXCEPT ![t] = "opened"]
    /\ UNCHANGED <<new_data, current_config, config_file>>
    /\ UNCHANGED <<rateVars, api_key, searchPriorities, resp, reads, storeVars, singletonVars>>

\* line 44: json.dump starts writing through the thread's file object
save_dump(t) ==
    /\ save_pc[t] = "opened"
    /\ inode' = [inode EXCEPT ![handle[t]] = [data |-> current_config[t], state |-> "partial"]]
    /\ written_by' = [written_by EXCEPT ![handle[t]] = @ \cup {t}]
    /\ save_pc' = [save_pc EXCEPT ![t] = "dumping"]
    /\ UNCHANGED <<new_data, current_config, config_file, tmp_file, handle>>
    /\ UNCHANGED <<rateVars, api_key, searchPriorities, resp, reads, storeVars, singletonVars>>

\* lines 44-46: the dump is complete, flushed and the file closed.  The file
\* holds the thread's JSON text when nobody else wrote to it or truncated it
\* meanwhile; otherwise the bytes of two writers are mixed and it may not parse
save_close(t) ==
    /\ save_pc[t] = "dumping"
    /\ \E state \in IF written_by[handle[t]] = {t} THEN {"whole"} ELSE {"whole", "partial"} :
         inode' = [inode EXCEPT ![handle[t]] = [data |-> current_config[t], state |-> state]]
    /\ save_pc' = [save_pc EXCEPT ![t] = "written"]
    /\ UNCHANGED <<new_data, current_config, config_file, tmp_file, handle, written_by>>
    /\ UNCHANGED <<rateVars, api_key, searchPriorities, resp, reads, storeVars, singletonVars>>

\* line 48: os.replace(tmp_file, CONFIG_FILE); it raises when another caller
\* has renamed the temporary file away
save_replace(t) ==
    /\ save_pc[t] = "written"
    /\ IF tmp_file # "absent"
       THEN /\ config_file' = tmp_file
            /\ tmp_file' = "absent"
            /\ save_pc' = [save_pc EXCEPT ![t] = "done"]
       ELSE /\ save_pc' = [save_pc EXCEPT ![t] = "failed"]
            /\ UNCHANGED <<config_file, tmp_file>>
    /\ handle' = [handle EXCEPT ![t] = "none"]
    /\ UNCHANGED <<new_data, current_config, inode, written_by>>
    /\ UNCHANGED <<rateVars, api_key, searchPriorities, resp, reads, storeVars, singletonVars>>

\* lines 50-56: except Exception: remove the temporary file if there is one
save_except(t) ==
    /\ save_pc[t] = "failed"
    /\ tmp_file' = "absent"
    /\ save_pc' = [save_pc EXCEPT ![t] = "done"]
    /\ UNCHANGED <<new_data, current_config, inode, config_file, handle, written_by>>
    /\ UNCHANGED <<rateVars, api_key, searchPriorities, resp, reads, storeVars, singletonVars>>

----------------------------------------------------------------------------
(* _get_external_api_service under concurrent first requests: api.py 499-510 *)

\* a request arrives that needs the service: a key update or a search
request_begin(t) ==
    /\ Idle
    /\ get_pc[t] = "idle"
    /\ \E kind \in {"update_key", "search"} : request' = [request EXCEPT ![t] = kind]
    /\ get_pc' = [get_pc EXCEPT ![t] = "check"]
    /\ UNCHANGED <<external_api_service, service, instance_key>>
    /\ UNCHANGED <<rateVars, api_key, searchPriorities, resp, reads, storeVars, fileVars>>

\* line 504: if _external_api_service is None
get_check(t) ==
    /\ get_pc[t] = "check"
    /\ get_pc' = [get_pc EXCEPT ![t] =
                     IF external_api_service = "None" THEN "construct" ELSE "return"]
    /\ UNCHANGED <<external_api_service, request, service, instance_key>>
    /\ UNCHANGED <<rateVars, api_key, searchPriorities, resp, reads, storeVars, fileVars>>

\* lines 505-509: load_config() and ExternalAPIService(tmdb_api_key=tmdb_key);
\* the instance, named after its thread, holds the key config.json has now
get_construct(t) ==
    /\ get_pc[t] = "construct"
    /\ instance_key' = [instance_key EXCEPT ![t] = apiKeys["tmdb"]]
    /\ get_pc' = [get_pc EXCEPT ![t] = "assign"]
    /\ UNCHANGED <<external_api_service, request, service>>
    /\ UNCHANGED <<rateVars, api_key, searchPriorities, resp, reads, storeVars, fileVars>>

\* line 509: _external_api_service = <the instance>
get_assign(t) ==
    /\ get_pc[t] = "assign"
    /\ external_api_service' = t
    /\ get_pc' = [get_pc EXCEPT ![t] = "return"]
    /\ UNCHANGED <<request, service, instance_key>>
    /\ UNCHANGED <<rateVars, api_key, searchPriorities, resp, reads, storeVars, fileVars>>

\* line 510: return _external_api_service, read again from the global
get_return(t) ==
    /\ get_pc[t] = "return"
    /\ service' = [service EXCEPT ![t] = external_api_service]
    /\ get_pc' = [get_pc EXCEPT ![t] = "use"]
    /\ UNCHANGED <<external_api_service, request, instance_key>>
    /\ UNCHANGED <<rateVars, api_key, searchPriorities, resp, reads, storeVars, fileVars>>

\* the handler works on the service it was handed: update_external_api_key
\* sets the key on it and saves it (api.py 626-641); a search reads it
request_use(t) ==
    /\ get_pc[t] = "use"
    /\ IF request[t] = "update_key"
       THEN /\ instance_key' = [instance_key EXCEPT ![service[t]] = "k"]
            /\ apiKeys' = SaveConfig(apiKeys, [apiKeys EXCEPT !["tmdb"] = "k"])
       ELSE UNCHANGED <<instance_key, apiKeys>>
    /\ get_pc' = [get_pc EXCEPT ![t] = "used"]
    /\ UNCHANGED <<external_api_service, request, service>>
    /\ UNCHANGED <<rateVars, api_key, searchPriorities, resp, reads, disk, fileVars>>

\* the handler returns
request_end(t) ==
    /\ get_pc[t] = "used"
    /\ get_pc' = [get_pc EXCEPT ![t] = "idle"]
    /\ request' = [request EXCEPT ![t] = "none"]
    /\ service' = [service EXCEPT ![t] = "None"]
    /\ UNCHANGED <<external_api_service, instance_key>>
    /\ UNCHANGED <<rateVars, api_key, searchPriorities, resp, reads, storeVars, fileVars>>

----------------------------------------------------------------------------
(* config.json and the service over a restart *)

\* writing config.json starts or stops raising (open, json.dump or os.replace:
\* the except branch of save_config, config_manager.py 50-56)
disk_fault ==
    /\ Idle
    /\ disk' = IF disk = "ok" THEN "failing" ELSE "ok"
    /\ UNCHANGED <<rateVars, api_key, searchPriorities, resp, reads, apiKeys, procVars>>

\* the process starts again: _get_external_api_service builds the service
\* from config.json (api.py 499-510, external_api.py 1081-1094)
restart ==
    /\ Idle
    /\ api_key' = apiKeys
    /\ UNCHANGED <<rateVars, searchPriorities, resp, reads, storeVars, procVars>>

\* the client receives the response
Deliver ==
    /\ resp # NoResp
    /\ resp' = NoResp
    /\ UNCHANGED <<rateVars, api_key, searchPriorities, reads, storeVars, procVars>>

----------------------------------------------------------------------------
(* Specifications *)

\* _last_anilist_request = 0.0 at import; time.time() is far past the interval
InitGovernor ==
    /\ clock = ANILIST_MIN_INTERVAL
    /\ last_anilist_request = 0
    /\ pc = [t \in Threads |-> "idle"]
    /\ now = [t \in Threads |-> 0]
    /\ wake = [t \in Threads |-> 0]
    /\ sent = <<>>
    /\ results = <<>>
    /\ overlapped = FALSE

\* config.json is whole and holds neither update; no save_config is under way
InitFiles ==
    /\ save_pc = [t \in Threads |-> "idle"]
    /\ new_data = [t \in Threads |-> "none"]
    /\ current_config = [t \in Threads |-> {}]
    /\ inode = [i \in Inodes |-> [data |-> {}, state |-> IF i = "i0" THEN "whole" ELSE "none"]]
    /\ config_file = "i0"
    /\ tmp_file = "absent"
    /\ handle = [t \in Threads |-> "none"]
    /\ written_by = [i \in Inodes |-> {}]

\* no request is under way.  The handlers' steps of the other sections work on
\* the one service they are handed, whose keys are api_key
InitSingleton ==
    /\ external_api_service = "None"
    /\ get_pc = [t \in Threads |-> "idle"]
    /\ request = [t \in Threads |-> "none"]
    /\ service = [t \in Threads |-> "None"]
    /\ instance_key = [t \in Threads |-> "unbuilt"]

\* the clients hold the keys of config.json (ExternalAPIService.__init__,
\* external_api.py 1082-1094), and config.json can be written
InitStore ==
    /\ apiKeys = api_key
    /\ disk = "ok"
    /\ InitFiles
    /\ InitSingleton

\* the keys config.json holds at the start: for each client none or a key,
\* and for TMDB, whose key the handlers test themselves, also an empty string
InitKeys ==
    {k \in [KeyedAdapters -> KeyStates] : \A a \in KeyedAdapters \ {"tmdb"} : k[a] # ""}

\* ExternalAPIService.__init__ (external_api.py 1081-1094) reads the keys
\* config.json holds; no preference is stored yet
Init ==
    /\ InitGovernor
    /\ api_key \in InitKeys
    /\ searchPriorities = [t \in MEDIA_TYPES |-> "None"]
    /\ resp = NoResp
    /\ reads = <<>>
    /\ InitStore

InitRate ==
    /\ InitGovernor
    /\ api_key = [a \in KeyedAdapters |-> "None"]
    /\ searchPriorities = [t \in MEDIA_TYPES |-> "None"]
    /\ resp = NoResp
    /\ reads = <<>>
    /\ InitStore

\* config.json holds no key, or a key for every client
InitPref ==
    /\ InitGovernor
    /\ api_key \in {[a \in KeyedAdapters |-> "None"], [a \in KeyedAdapters |-> "k"]}
    /\ searchPriorities = [t \in MEDIA_TYPES |-> "None"]
    /\ resp = NoResp
    /\ reads = <<>>
    /\ InitStore

Next ==
    \/ external_search
    \/ external_details
    \/ update_external_api_key
    \/ update_search_priority
    \/ Deliver

NextRate ==
    \/ \E t \in Threads : EnterRequest(t)
    \/ \E t \in Threads : ReadNow(t)
    \/ \E t \in Threads : CheckElapsed(t)
    \/ \E t \in Threads : WakeUp(t)
    \/ \E t \in Threads : Stamp(t)
    \/ \E t \in Threads : Post(t)
    \/ \E t \in Threads : Respond(t)
    \/ Tick

NextPref ==
    \/ external_search_by_preference
    \/ update_search_priority
    \/ Deliver

NextCalls ==
    \/ ExternalAPIService_search
    \/ client_search
    \/ update_external_api_key
    \/ update_search_priority
    \/ Deliver

NextConfig ==
    \E t \in Threads :
        \/ save_load(t)
        \/ save_open(t)
        \/ save_dump(t)
        \/ save_close(t)
        \/ save_replace(t)
        \/ save_except(t)

NextSingleton ==
    \E t \in Threads :
        \/ request_begin(t)
        \/ get_check(t)
        \/ get_construct(t)
        \/ get_assign(t)
        \/ get_return(t)
        \/ request_use(t)
        \/ request_end(t)

NextStore ==
    \/ update_external_api_key
    \/ disk_fault
    \/ restart
    \/ Deliver

NextNorm ==
    \/ search_result_title
    \/ search_result_preview
    \/ anilist_details_titles
    \/ tmdb_details_titles
    \/ mangadex_details_titles
    \/ tvmaze_details_seasons
    \/ tmdb_details_counts
    \/ Deliver

Spec == Init /\ [][Next]_vars

SpecConfig == InitRate /\ [][NextConfig]_vars

SpecSingleton == InitRate /\ [][NextSingleton]_vars

SpecStore == Init /\ [][NextStore]_vars

SpecNorm == InitRate /\ [][NextNorm]_vars

SpecCalls == Init /\ [][NextCalls]_vars

SpecPref == InitPref /\ [][NextPref]_vars

SpecRate == InitRate /\ [][NextRate]_vars

----------------------------------------------------------------------------
(* Properties *)

\* the adapters a response's service call invoked
Invoked(r) == {r.calls[i] : i \in 1..Len(r.calls)}

\* what the caller of a handler can observe of a response
Seen(r) == <<r.status, r.error, r.res>>

\* a search or details request that passed the handler's validation of its
\* query or id and of its media type
WellFormed(r) == r.error \notin {"query_required", "id_required", "invalid_type"}

\* C1: under any interleaving of concurrent callers, no two outbound AniList
\* requests are issued less than ANILIST_MIN_INTERVAL apart.
C1_NoTwoRequestsWithinInterval ==
    \A i, j \in 1..Len(sent) :
        i < j => sent[j] - sent[i] >= ANILIST_MIN_INTERVAL

\* C2: when AniList requests follow one another without overlapping, each is
\* issued at least ANILIST_MIN_INTERVAL after the one before it, whatever the
\* outcome of that one was, and the timestamp is recorded before the request
\* leaves.
C2_SequentialRequestsSpaced ==
    ~overlapped =>
        /\ \A i \in 1..(Len(sent) - 1) : sent[i + 1] - sent[i] >= ANILIST_MIN_INTERVAL
        /\ \A t \in Threads :
            /\ pc[t] = "post" => last_anilist_request = clock
            /\ pc[t] = "await" => last_anilist_request = sent[Len(sent)]

\* C2 witness: a request that failed, then a second one that slept and left
\* exactly one interval later.
C2_SleptAfterFailure ==
    /\ ~overlapped
    /\ Len(sent) = 2
    /\ Len(results) >= 1
    /\ results[1] = "exception"
    /\ sent[2] - sent[1] = ANILIST_MIN_INTERVAL
    /\ \E t \in Threads : wake[t] = sent[2]

\* C3: while the key of TMDB or Comic Vine is unset or empty, a search or
\* get_details that reaches that adapter issues no outbound request, and the
\* search returns an empty list.
C3_NoKeyNoRequest ==
    (resp.op \in {"search", "details"} /\ resp.svc) =>
        \A a \in {"tmdb", "comicvine"} :
            (a \in Invoked(resp) /\ ~Truthy(api_key[a])) =>
                /\ resp.net = 0
                /\ resp.up = NoAnswer
                /\ resp.op = "search" => resp.res = "empty"

\* C3 witness: a search routed to TMDB while its key is the empty string.
C3_KeylessTmdbSearch ==
    /\ resp.op = "search"
    /\ resp.calls = <<"tmdb">>
    /\ api_key["tmdb"] = ""
    /\ resp.net = 0
    /\ resp.res = "empty"

\* C4: a details request for TMDB or Comic Vine made while that adapter's key
\* is absent ends in a credential-missing answer, not in "not found" and not
\* in a failure.
C4_MissingKeyIsReported ==
    (/\ resp.op = "details"
     /\ WellFormed(resp)
     /\ resp.source \in {"tmdb", "comicvine"}
     /\ ~Truthy(api_key[resp.source])) =>
        /\ resp.error = "tmdb_key_missing"
        /\ resp.error \notin {"not_found", "details_failed"}

\* C5: ExternalAPIService.search never raises: every adapter-level failure,
\* malformed items included, ends in an empty list.
C5_SearchNeverRaises ==
    (resp.op = "search" /\ resp.svc) => resp.res # "raise"

\* C6: what the caller sees of a details request when the upstream is
\* unreachable or times out differs from what it sees when the upstream
\* reports that the item does not exist.
C6_FailureDiffersFromNotFound ==
    (resp.op = "details" /\ resp.up = "neterr") =>
        Seen(resp) # Seen(DetailsResponse(resp.arg, resp.media_type, resp.source,
                                          "notfound", 0))

\* C7: a details request whose source is outside the allow-list is answered
\* "invalid source" before the service or any adapter is called, with no
\* outbound request, and that answer is not the "not found" answer.
C7_UnknownSourceRejected ==
    (resp.op = "details" /\ WellFormed(resp) /\ resp.source \notin Sources) =>
        /\ resp.status = 400
        /\ resp.error = "invalid_source"
        /\ ~resp.svc
        /\ resp.calls = <<>>
        /\ resp.net = 0
        /\ Seen(resp) # <<404, "not_found", "null">>

\* C7 witness: a details request naming a source no client exists for.
C7_BogusSourceRefused ==
    /\ resp.op = "details"
    /\ resp.source = "bogus"
    /\ resp.error = "invalid_source"

\* C8: a search with an explicit source that is not compatible with the media
\* type returns an empty list without raising and without invoking any adapter.
C8_IncompatibleOverrideIsEmpty ==
    (/\ resp.op = "search"
     /\ resp.svc
     /\ Truthy(resp.source)
     /\ ~Compatible(resp.source, resp.media_type)) =>
        /\ resp.res = "empty"
        /\ resp.calls = <<>>

\* C9: a search with an explicit source that is compatible with the media type
\* invokes exactly that adapter, once, and does not read the stored preference.
C9_OverrideWins ==
    (/\ resp.op = "search"
     /\ resp.svc
     /\ Truthy(resp.source)
     /\ Compatible(resp.source, resp.media_type)) =>
        /\ resp.calls = <<resp.source>>
        /\ ~resp.cfg

\* C9 witness: TVMaze asked for by name while the stored preference for
\* Series is AniList.
C9_OverrideAgainstPreference ==
    /\ resp.op = "search"
    /\ resp.media_type = "Series"
    /\ resp.source = "tvmaze"
    /\ searchPriorities["Series"] = "anilist"
    /\ resp.calls = <<"tvmaze">>

\* C10 as claimed: with a stored preference {Series: X}, X one of tmdb, tvmaze,
\* anilist, a Series search without an explicit source invokes X exactly once
\* and no other adapter, in every credential state.
C10_PreferenceAlwaysRouted ==
    (/\ resp.op = "search"
     /\ resp.svc
     /\ resp.media_type = "Series"
     /\ ~Truthy(resp.source)
     /\ searchPriorities["Series"] \in {"tmdb", "tvmaze", "anilist"}) =>
        resp.calls = <<searchPriorities["Series"]>>

\* C10 as amended: the search invokes X exactly once and no other adapter,
\* except that with X = tmdb and no TMDB key it invokes TVMaze exactly once
\* and no other adapter.
C10_PreferenceRoutedUnlessKeyless ==
    (/\ resp.op = "search"
     /\ resp.svc
     /\ resp.media_type = "Series"
     /\ ~Truthy(resp.source)
     /\ searchPriorities["Series"] \in {"tmdb", "tvmaze", "anilist"}) =>
        resp.calls = IF searchPriorities["Series"] = "tmdb" /\ ~Truthy(api_key["tmdb"])
                     THEN <<"tvmaze">>
                     ELSE <<searchPriorities["Series"]>>

\* C10 witness: the preference is TMDB, its key is unset, TVMaze is searched.
C10_KeylessTmdbPreference ==
    /\ resp.op = "search"
    /\ resp.media_type = "Series"
    /\ ~Truthy(resp.source)
    /\ searchPriorities["Series"] = "tmdb"
    /\ api_key["tmdb"] = "None"
    /\ resp.calls = <<"tvmaze">>
    /\ resp.net = 1

\* the preferences a chain of search follows whatever the keys are
\* (external_api.py 1152-1153, 1157, 1162, 1166-1167, 1175-1176)
HonouredPreferences ==
    {<<"Anime", "tmdb">>, <<"Anime", "tvmaze">>, <<"Manga", "anilist">>,
     <<"Movie", "anilist">>, <<"Series", "anilist">>, <<"Series", "tvmaze">>,
     <<"Book", "googlebooks">>, <<"Book", "comicvine">>}

\* C11: when the stored preference of a media type changes between two
\* searches of that type, the second search routes by the new preference:
\* nothing of the earlier read is kept.
C11_PreferenceReadFresh ==
    (/\ resp.op = "search"
     /\ resp.svc
     /\ Len(reads) = 2
     /\ reads[1][1] = reads[2][1]
     /\ reads[1][2] # reads[2][2]) =>
        /\ reads[2] = <<resp.media_type, searchPriorities[resp.media_type]>>
        /\ reads[2] \in HonouredPreferences => resp.calls = <<reads[2][2]>>

\* C11 witness: Series searched under the preference anilist, then, the
\* preference changed to tvmaze, searched again and routed to TVMaze.
C11_RoutedAfterChange ==
    /\ resp.op = "search"
    /\ reads = <<<<"Series", "anilist">>, <<"Series", "tvmaze">>>>
    /\ resp.calls = <<"tvmaze">>

\* a direct search of the service with a query that is not blank
SearchedFor(r) ==
    r.op = "service.search" /\ Truthy(r.arg) /\ Strip(r.arg) # ""

\* such a search without an explicit source and without a stored preference
ByDefault(r) ==
    /\ SearchedFor(r)
    /\ ~Truthy(r.source)
    /\ r.media_type \in MEDIA_TYPES
    /\ searchPriorities[r.media_type] = "None"

\* C12 as claimed: every search with a non-empty query and a valid media type
\* invokes exactly one adapter.
C12_ExactlyOneAdapter ==
    (SearchedFor(resp) /\ resp.media_type \in MEDIA_TYPES) => Len(resp.calls) = 1

\* C12 as amended: such a search never invokes two adapters; it invokes
\* exactly one, except that it invokes none when the explicit source names no
\* client or is tmdb, tvmaze or anilist with a media type their guard refuses.
C12_AtMostOneAdapter ==
    (SearchedFor(resp) /\ resp.media_type \in MEDIA_TYPES) =>
        /\ Len(resp.calls) <= 1
        /\ resp.calls = <<>> <=>
              /\ Truthy(resp.source)
              /\ \/ resp.source \notin Sources
                 \/ /\ resp.source \in {"tmdb", "tvmaze", "anilist"}
                    /\ ~Compatible(resp.source, resp.media_type)

\* C12 witness: Book searched with the explicit source tmdb: no adapter.
C12_GuardedOverrideInvokesNone ==
    /\ SearchedFor(resp)
    /\ resp.media_type = "Book"
    /\ resp.source = "tmdb"
    /\ resp.calls = <<>>
    /\ resp.res = "empty"

\* C13 as claimed: by default Movie and Series are routed to TMDB when its key
\* is set and to an adapter that needs no key when it is absent.
C13_KeylessFallsBack ==
    (ByDefault(resp) /\ resp.media_type \in {"Movie", "Series"}) =>
        IF Truthy(api_key["tmdb"])
        THEN resp.calls = <<"tmdb">>
        ELSE /\ Len(resp.calls) = 1
             /\ resp.calls[1] \notin {"tmdb", "comicvine"}

\* C13 as amended: by default Series is routed to TMDB when its key is set and
\* to TVMaze when it is absent; Movie is routed to TMDB in both cases, and
\* without the key that search returns [] without an outbound request.
C13_SeriesFallsBackMovieDoesNot ==
    (ByDefault(resp) /\ resp.media_type \in {"Movie", "Series"}) =>
        IF Truthy(api_key["tmdb"])
        THEN resp.calls = <<"tmdb">> /\ resp.net = 1
        ELSE IF resp.media_type = "Series"
        THEN resp.calls = <<"tvmaze">> /\ resp.net = 1
        ELSE resp.calls = <<"tmdb">> /\ resp.net = 0 /\ resp.res = "empty"

\* C13 witness: Movie searched by default without a TMDB key.
C13_KeylessMovieSearch ==
    /\ ByDefault(resp)
    /\ resp.media_type = "Movie"
    /\ api_key["tmdb"] = "None"
    /\ resp.calls = <<"tmdb">>
    /\ resp.net = 0

\* C14: by default Manga is routed to MangaDex, Book to OpenLibrary and Anime
\* to AniList, whatever the keys are.
C14_FixedDefaults ==
    (ByDefault(resp) /\ resp.media_type \in {"Manga", "Book", "Anime"}) =>
        resp.calls = <<CASE resp.media_type = "Manga" -> "mangadex"
                         [] resp.media_type = "Book"  -> "openlibrary"
                         [] resp.media_type = "Anime" -> "anilist">>

\* C14 witness: Book searched by default while a Google Books key and a Comic
\* Vine key are set.
C14_BookWithKeysSet ==
    /\ ByDefault(resp)
    /\ resp.media_type = "Book"
    /\ api_key["googlebooks"] = "k"
    /\ api_key["comicvine"] = "k"
    /\ resp.calls = <<"openlibrary">>

\* C15: the search of every client, called with an empty query, returns []
\* without an outbound request.
C15_EmptyQueryNoRequest ==
    (resp.op = "client.search" /\ resp.arg = "") =>
        /\ resp.net = 0
        /\ resp.res = "empty"

\* C16: search with a query that is None, empty or blank returns [] before
\* routing: no read of the configuration, no client called, no outbound
\* request and no pass through the rate limiter; any other query reaches the
\* client trimmed.
C16_BlankQueryShortCircuits ==
    resp.op = "service.search" =>
        IF resp.arg \in {"None", "", " "}
        THEN /\ resp.res = "empty"
             /\ resp.calls = <<>>
             /\ ~resp.cfg
             /\ resp.net = 0
             /\ ~Governed(resp)
        ELSE resp.arg = " q " => resp.query = "q"

\* C16 witness: a blank query with an explicit source returns [] unrouted.
C16_BlankQueryWithSource ==
    /\ resp.op = "service.search"
    /\ resp.arg = " "
    /\ resp.media_type = "Anime"
    /\ resp.source = "anilist"
    /\ resp.calls = <<>>
    /\ resp.res = "empty"

\* C17: a key set through update_external_api_key is in force at once on the
\* client that lives in the service, a request of that client carries it,
\* setting the same keys again changes nothing, and the keys of the clients
\* the request does not name stay as they were.
C17_KeyInForceAtOnce ==
    /\ resp.op = "update_key" =>
        /\ \A a \in KeyedAdapters :
              IF Truthy(resp.body[a])
              THEN api_key[a] = resp.body[a]
              ELSE api_key[a] = resp.before[a]
        /\ ApplyKeys(api_key, resp.body) = api_key
    /\ (/\ resp.op \in {"search", "details"}
        /\ resp.svc
        /\ resp.net > 0
        /\ Len(resp.calls) = 1
        /\ resp.calls[1] \in KeyedAdapters) =>
            (Truthy(api_key[resp.calls[1]]) => resp.key = api_key[resp.calls[1]])

\* C17 witness: a Comic Vine key set where none was, the TMDB key untouched.
C17_ComicVineKeySet ==
    /\ resp.op = "update_key"
    /\ resp.before["comicvine"] = "None"
    /\ resp.body = [tmdb |-> "None", googlebooks |-> "None", comicvine |-> "k"]
    /\ api_key["comicvine"] = "k"
    /\ api_key["tmdb"] = resp.before["tmdb"]

\* whether a text ends with the marker
EndsWithEllipsis(s) ==
    Len(s) >= Len(Ellipsis) /\ SubSeq(s, Len(s) - Len(Ellipsis) + 1, Len(s)) = Ellipsis

\* a sequence's elements
Elements(q) == {q[i] : i \in DOMAIN q}

\* C18: the title of every search result and details record is neither null
\* nor empty: a placeholder stands in when the upstream has no usable title.
C18_TitleNeverEmpty ==
    resp.op \in {"title", "anilist.titles"} => resp.title \notin {"None", ""}

\* C19: description_preview is at most 203 long, ends with the marker exactly
\* when the description was longer than 200, and is then its first 200
\* characters followed by the marker.
C19_PreviewCutWithMarker ==
    resp.op = "preview" =>
        LET desc == DescText(resp.desc)
        IN  /\ Len(resp.description_preview) <= PreviewLength + Len(Ellipsis)
            /\ EndsWithEllipsis(resp.description_preview) <=> Len(desc) > PreviewLength
            /\ Len(desc) > PreviewLength =>
                  resp.description_preview = Take(desc, PreviewLength) \o Ellipsis

\* C20: AniList get_details on an item whose only title is the native one
\* gives that title and keeps it out of alternate_titles; in general the title
\* is the first usable of english, romaji, native, else the placeholder.
C20_NativeTitleNotRepeated ==
    resp.op = "anilist.titles" =>
        LET english == PyGet(resp.payload["english"], "None")
            romaji  == PyGet(resp.payload["romaji"], "None")
            native  == PyGet(resp.payload["native"], "None")
        IN  /\ resp.title = IF Truthy(english) THEN english
                            ELSE IF Truthy(romaji) THEN romaji
                            ELSE IF Truthy(native) THEN native
                            ELSE "Unknown"
            /\ (Truthy(native) /\ ~Truthy(english) /\ ~Truthy(romaji)) =>
                  /\ resp.title = native
                  /\ native \notin Elements(resp.alternate_titles)

\* C21: alternate_titles of a details record holds no value twice and never
\* the record's primary title.
C21_AltTitlesDistinct ==
    resp.op \in {"anilist.titles", "tmdb.titles", "mangadex.titles"} =>
        /\ \A i, j \in DOMAIN resp.alternate_titles :
              i # j => resp.alternate_titles[i] # resp.alternate_titles[j]
        /\ resp.title \notin Elements(resp.alternate_titles)

\* a fetched show whose seasons, at least one, all lack episodeOrder, and
\* whose episode listing was fetched
AllOrdersMissing ==
    /\ resp.op = "tvmaze.details"
    /\ resp.embedded # <<>>
    /\ \A i \in DOMAIN resp.embedded : resp.embedded[i].episodeOrder = Null
    /\ resp.listing_ok

\* the episodes of the listing that belong to a season of the show
ListedEpisodes ==
    {i \in DOMAIN resp.listing :
        /\ resp.listing[i] # 0
        /\ \E j \in DOMAIN resp.embedded : resp.embedded[j].number = resp.listing[i]}

\* C22 as stated: with every episodeOrder null the listing is fetched, the
\* per-season counts sum to the episodes total, and the total is the number of
\* episodes in the listing.
C22_CountsSumToListing ==
    AllOrdersMissing =>
        /\ resp.net = 2
        /\ SumCounts(resp.seasons) = resp.episodes
        /\ resp.episodes = Len(resp.listing)

\* C22 amended: with every episodeOrder null the listing is fetched, each
\* season gets the number of listing episodes carrying its (nonzero) number,
\* or null when there is none; the counts sum to the episodes total, which is
\* null instead of zero and counts only the episodes of the show's seasons.
C22_CountsSumToListedEpisodes ==
    AllOrdersMissing =>
        /\ resp.net = 2
        /\ \A i \in DOMAIN resp.seasons :
              LET n == Cardinality({k \in DOMAIN resp.listing :
                          resp.listing[k] # 0 /\ resp.listing[k] = resp.seasons[i].number})
              IN  resp.seasons[i].episodes = IF n > 0 THEN n ELSE Null
        /\ SumCounts(resp.seasons) = Cardinality(ListedEpisodes)
        /\ resp.episodes = IF ListedEpisodes # {} THEN Cardinality(ListedEpisodes) ELSE Null

\* a show of two seasons without episodeOrder and three listed episodes
C22_TwoSeasonsCounted ==
    /\ AllOrdersMissing
    /\ Len(resp.embedded) = 2
    /\ Cardinality(ListedEpisodes) = 3
    /\ resp.episodes = 3

\* C23: a search with a query and a category outside MEDIA_TYPES is refused at
\* once as an invalid category, whatever the source override, the stored
\* preferences and the keys: the service is not called, no adapter is invoked
\* and no request goes out.
C23_InvalidCategoryRefused ==
    (resp.op = "search" /\ resp.arg # "" /\ resp.media_type \notin MEDIA_TYPES) =>
        /\ resp.status = 400
        /\ resp.error = "invalid_type"
        /\ ~resp.svc
        /\ resp.calls = <<>>
        /\ resp.net = 0

\* C23 witness: category Game with the override openlibrary, while a
\* preference is stored
C23_GameViaOpenLibrary ==
    /\ resp.op = "search"
    /\ resp.arg = "q"
    /\ resp.media_type = "Game"
    /\ resp.source = "openlibrary"
    /\ \E t \in MEDIA_TYPES : searchPriorities[t] # "None"
    /\ resp.status = 400
    /\ resp.net = 0

\* whether the upstream item gave a zero runtime anywhere
UpstreamRuntimeZero(data) ==
    \/ data.runtime = 0
    \/ data.episode_run_time # <<>>
         /\ Sum(data.episode_run_time) \div Len(data.episode_run_time) = 0

\* C24: in a details record a number is zero only when the upstream reported
\* zero; a count or duration the upstream left null is null in the record,
\* and a Movie carries no seasons.
C24_ZeroOnlyFromUpstream ==
    resp.op = "tmdb.details" =>
        /\ resp.avg_duration_minutes = 0 => UpstreamRuntimeZero(resp.payload)
        /\ \A i \in DOMAIN resp.seasons :
              /\ resp.seasons[i].duration = 0 => UpstreamRuntimeZero(resp.payload)
              /\ resp.seasons[i].episodes = 0 =>
                    \E j \in DOMAIN resp.payload.seasons :
                        /\ resp.payload.seasons[j].season_number = resp.seasons[i].number
                        /\ resp.payload.seasons[j].episode_count = 0
        /\ resp.media_type = "Movie" => resp.seasons = <<>>

\* the most requests one get_details of an adapter may send
DetailsRequestCap(a) ==
    CASE a = "openlibrary" -> 1 + AuthorLookups
      [] a = "tvmaze"      -> 2
      [] OTHER             -> 1

\* C25: a search sends at most one request; a get_details sends at most
\* 1 + 5 for OpenLibrary, 2 for TVMaze and 1 for every other adapter; a request
\* that failed is not sent again.
C25_RequestsBounded ==
    /\ resp.op = "search" => resp.net <= 1 /\ Len(resp.calls) <= 1
    /\ resp.op = "details" =>
          /\ resp.net <= DetailsRequestCap(resp.source)
          /\ resp.up \in {"neterr", "notfound"} => resp.net = 1

\* C25 witness: an OpenLibrary work whose author lookups reach the cap
C25_AuthorLookupsAtCap ==
    /\ resp.op = "details"
    /\ resp.source = "openlibrary"
    /\ resp.net = 1 + AuthorLookups

\* C26: a search or get_details that goes to an adapter other than AniList
\* does not sleep before its request, whatever AniList did before: the clock
\* and _last_anilist_request are as they were when the handler started.
C26_OnlyAniListSleeps ==
    [][(/\ resp = NoResp
        /\ resp'.op \in {"search", "details"}
        /\ resp'.svc
        /\ resp'.net > 0
        /\ resp'.calls # <<"anilist">>) =>
            /\ clock' = clock
            /\ last_anilist_request' = last_anilist_request]_vars

\* the adapter a media type is routed to when nothing is preferred
\* (external_api.py 1154, 1159, 1163, 1171-1172, 1177)
BuiltinDefault(media_type) ==
    CASE media_type = "Anime"  -> "anilist"
      [] media_type = "Manga"  -> "mangadex"
      [] media_type = "Movie"  -> "tmdb"
      [] media_type = "Series" -> IF Truthy(api_key["tmdb"]) THEN "tmdb" ELSE "tvmaze"
      [] media_type = "Book"   -> "openlibrary"

\* a search by default while the stored preference of its media type names
\* an adapter that is unknown or not compatible with the type
IncompatiblePreference(r) ==
    /\ SearchedFor(r)
    /\ ~Truthy(r.source)
    /\ r.media_type \in MEDIA_TYPES
    /\ searchPriorities[r.media_type] # "None"
    /\ ~Compatible(searchPriorities[r.media_type], r.media_type)

\* C27: such a search ignores the preference: it invokes the built-in default
\* adapter of the media type and no other, never the preferred one, and the
\* preference makes no call fail.
C27_IncompatiblePreferenceIgnored ==
    IncompatiblePreference(resp) =>
        /\ resp.calls = <<BuiltinDefault(resp.media_type)>>
        /\ resp.calls # <<searchPriorities[resp.media_type]>>
        /\ resp.res = DefaultChain("None", resp.media_type, resp.up).res

\* C27 witness: Manga searched with {Manga: tmdb} stored
C27_MangaPrefersTmdb ==
    /\ IncompatiblePreference(resp)
    /\ resp.media_type = "Manga"
    /\ searchPriorities["Manga"] = "tmdb"
    /\ api_key["tmdb"] = "k"
    /\ resp.calls = <<"mangadex">>
    /\ resp.res = "list"

\* C30: after any sequence of service creations and key updates, each of the
\* TMDB, Google Books and Comic Vine clients holds the key that config.json
\* stores for it, so that a restart changes no key.
C30_MemoryEqualsStore ==
    \A a \in KeyedAdapters : api_key[a] = apiKeys[a]

\* C28: two save_config calls that update different top-level keys, however
\* they interleave, leave a config.json that holds both updates; the file is
\* well formed at every moment, so that no reader sees a partly written one.
C28_BothUpdatesStored ==
    /\ inode[config_file].state = "whole"
    /\ (/\ \A t \in Threads : save_pc[t] = "done"
        /\ new_data["t1"] # new_data["t2"]) =>
          inode[config_file].data = {new_data[t] : t \in Threads}

\* C29: concurrent first requests build one ExternalAPIService and every
\* handler works on it, so that once a request has set the TMDB key, the
\* service the later requests are handed holds that key.
C29_OneServiceInstance ==
    /\ Cardinality({t \in Threads : instance_key[t] # "unbuilt"}) <= 1
    /\ \A t \in Threads : service[t] \in {"None", external_api_service}
    /\ (apiKeys["tmdb"] = "k" /\ external_api_service # "None") =>
          instance_key[external_api_service] = "k"

====
